---- MODULE Spec2Model ----
(***************************************************************************)
(* A model of the flashcards repository:                                   *)
(*   - the card editor (src/src/components/cards/CardEditor.tsx): the live *)
(*     card object, the undo/redo history, selection and drag;            *)
(*   - the print preview (src/unnamed/part_002, PrintPreview): layout and  *)
(*     pagination.                                                         *)
(*                                                                         *)
(* The editor mutates the card object it received as a prop in place       *)
(* (Object.assign(card, ...)) and stores object references in the history. *)
(* A history entry is therefore either a reference to that one mutable     *)
(* object (ref = "card") or a reference to an object made by a handler     *)
(* with an object spread (ref = "copy"), which no code ever writes to, so  *)
(* it is modelled by its value.                                            *)
(***************************************************************************)
EXTENDS Integers, Sequences, FiniteSets, TLC

VARIABLES
    \* ---- the editor's state ----
    card,             \* the prop object `card`, as mutated in place
    history,          \* useState<Card[]>([card])
    historyIndex,     \* useState(0)            (0-based, as in the code)
    selectedElement,  \* useState<string|null>  (Null for null)
    isDragging,       \* useState(false)
    dragOffset,       \* useState({x: 0, y: 0})
    currentSide,      \* useState<'front'|'back'>('front')
    currentContent,   \* the value `currentContent` had at the last render
    now,              \* Date.now()
    \* ---- what was observed, for stating the properties ----
    initialCard,      \* the card as it was loaded
    snap,             \* snap[i]: the document value history[i] had when stored
    lastOp,           \* the handler that ran last, and what it started from
    steps,            \* the number of handler calls so far
    \* ---- saving ----
    pendingSaves,     \* the persistence updates saveCard is awaiting
    onSaveCalls,      \* the calls of the prop onSave made so far
    \* ---- the print preview's state ----
    deck,             \* the prop `deck` (card_size, custom_width, custom_height)
    cards,            \* the prop `cards`
    printSettings,    \* useState({...})
    pc,               \* where generatePrintPages is
    i,                \* its loop variable
    pages,            \* its `pages` array
    \* ---- the AI import's state ----
    file,             \* useState<File|null>(null)
    processing,       \* useState(false)
    result,           \* useState<any>(null)
    error,            \* useState<string|null>(null)
    run,              \* where processFile is, and what it holds
    imported          \* the calls of the prop onImportComplete made so far

saveVars   == <<pendingSaves, onSaveCalls>>
importVars == <<file, processing, result, error, run, imported>>
editorOnly == <<card, history, historyIndex, selectedElement, isDragging,
                dragOffset, currentSide, currentContent, now,
                initialCard, snap, lastOp, steps, saveVars>>
printOnly  == <<deck, cards, printSettings, pc, i, pages>>
\* What a handler of the editor, or a step of the print preview, leaves alone
\* beside its own component's state.
editorVars == <<editorOnly, importVars>>
printVars  == <<printOnly, importVars>>
vars       == <<editorOnly, printOnly, importVars>>

----------------------------------------------------------------------------
\* Bounds of the model

MaxSteps    == 5     \* handler calls in one editing session
MaxClock    == 3     \* the last clock value of the session
MaxCards    == 5     \* cards handed to the print preview
MaxText     == 4     \* tokens in a text returned by the extraction service

----------------------------------------------------------------------------
\* The editor: values

Null == 0            \* selectedElement = null (element ids are clock values >= 1)

Sides == {"front", "back"}

SideKey(side) == IF side = "front" THEN "front_content" ELSE "back_content"

\* The element addElement builds.
NewElement(type, shapeType, id, zIndex) ==
    [ id              |-> id,
      type            |-> type,
      content         |-> IF type = "text" THEN "New Text"
                          ELSE IF type = "image" THEN ""
                          ELSE IF shapeType = "" THEN "rectangle" ELSE shapeType,
      x               |-> 50,
      y               |-> 50,
      width           |-> IF type = "text" THEN 200 ELSE 100,
      height          |-> IF type = "text" THEN 30 ELSE 100,
      fontSize        |-> 16,
      fontFamily      |-> "Inter",
      color           |-> "#000000",
      backgroundColor |-> IF type = "shape" THEN "#e5e7eb" ELSE "transparent",
      rotation        |-> 0,
      zIndex          |-> zIndex ]

\* The arguments of the "Add Elements" buttons ("" for an absent shapeType):
\* Text, Image, Rectangle, Circle.  The sessions explored press Text and Circle.
AddButtons == { <<"text", "">>, <<"image", "">>,
                <<"shape", "rectangle">>, <<"shape", "circle">> }
ButtonsPressed == { <<"text", "">>, <<"shape", "circle">> }

Content(elements) == [ elements |-> elements, backgroundColor |-> "#ffffff" ]

MakeCard(front, back) ==
    [ id            |-> "card-1",
      deck_id       |-> "deck-1",
      title         |-> "Title",
      front_content |-> Content(front),
      back_content  |-> Content(back),
      position      |-> 0 ]

\* Cards the session can be opened on: an empty card, and a card whose front
\* holds one text element made in an earlier session (an older clock value).
LoadedCards ==
    { MakeCard(<< >>, << >>),
      MakeCard(<< NewElement("text", "", 1, 1) >>, << >>) }

StartClock == 2      \* the clock when the session starts

\* Object.assign(target, source): every own property of source is written.
ObjectAssign(target, source) ==
    [ f \in (DOMAIN target) \cup (DOMAIN source) |->
        IF f \in DOMAIN source THEN source[f] ELSE target[f] ]

\* History entries.
CardRef     == [ ref |-> "card", val |-> MakeCard(<< >>, << >>) ]
CopyRef(c)  == [ ref |-> "copy", val |-> c ]

\* The document a history entry shows when it is read in state (card).
Deref(entry, liveCard) == IF entry.ref = "card" THEN liveCard ELSE entry.val

\* history[k] of the code (0-based).
At(h, k) == h[k + 1]

\* currentContent as a render computes it.
RenderContent(liveCard, side) == liveCard[SideKey(side)]

\* Array.prototype.find over the elements: the first element with the id.
HasElement(elements, id) == \E k \in 1..Len(elements) : elements[k].id = id

FindElement(elements, id) ==
    elements[CHOOSE k \in 1..Len(elements) :
                /\ elements[k].id = id
                /\ \A j \in 1..(k - 1) : elements[j].id # id]

RECURSIVE FilterOut(_, _)
FilterOut(elements, id) ==
    IF elements = << >> THEN << >>
    ELSE IF Head(elements).id = id THEN FilterOut(Tail(elements), id)
    ELSE << Head(elements) >> \o FilterOut(Tail(elements), id)

\* The list without its k-th element.
WithoutIndex(elements, k) ==
    SubSeq(elements, 1, k - 1) \o SubSeq(elements, k + 1, Len(elements))

----------------------------------------------------------------------------
\* The editor: the handlers

\* addToHistory without the slice: the entries after the cursor are kept.
addToHistory_KeepsRedo(newCard) ==
    LET newHistory == Append(history, newCard)
    IN  [ history |-> newHistory, historyIndex |-> Len(newHistory) - 1 ]

\* addToHistory(newCard): the new values of history and historyIndex.
addToHistory(newCard) ==
    LET newHistory == Append(SubSeq(history, 1, historyIndex + 1), newCard)
    IN  [ history |-> newHistory, historyIndex |-> Len(newHistory) - 1 ]

\* The record of what a commit stored: the value the stored object had then.
Remember(value) == Append(SubSeq(snap, 1, historyIndex + 1), value)

\* The editor is rendered until onSave is called: the parent's handleCardSave
\* closes the modal.
Mounted == onSaveCalls = << >>

\* A handler runs: the editor is rendered, and this is one more call of the
\* session, within the bound of the model.
\* Recorded:
\* its name, whether it called addToHistory, the cursor, the history length and
\* the card it started from, and the pointer position of its event (pointer
\* events only).
RanAt(op, committed, pointer) ==
    /\ Mounted
    /\ steps < MaxSteps
    /\ steps' = steps + 1
    /\ lastOp' = [ op |-> op, commit |-> committed,
                   cursor |-> historyIndex, length |-> Len(history),
                   pointer |-> pointer, card |-> card ]

NoPointer == [ x |-> 0, y |-> 0 ]

Ran(op, committed) == RanAt(op, committed, NoPointer)

\* The card object, built with the elements always stored under the front.
WithElements_OnFront(elements) ==
    [ card EXCEPT !.front_content =
        [ currentContent EXCEPT !.elements = elements ] ]

\* The card object the handlers build: {...card, [side]: {...currentContent, elements}}.
WithElements(elements) ==
    [ card EXCEPT ![SideKey(currentSide)] =
        [ currentContent EXCEPT !.elements = elements ] ]

\* {...el, ...updates}
Merge(el, updates) ==
    [ f \in (DOMAIN el) \cup (DOMAIN updates) |->
        IF f \in DOMAIN updates THEN updates[f] ELSE el[f] ]

\* updateElement's map over the elements.
UpdatedElements(elements, elementId, updates) ==
    [ k \in 1..Len(elements) |->
        IF elements[k].id = elementId THEN Merge(elements[k], updates)
        ELSE elements[k] ]

\* updateElement(elementId, updates): the prop object after Object.assign.
\* No state is set, so no render follows.
updateElement(elementId, updates) ==
    ObjectAssign(card,
        WithElements(UpdatedElements(currentContent.elements, elementId, updates)))

\* undo that moves the cursor without writing the snapshot into the card.
undo_KeepsCard ==
    /\ IF historyIndex > 0
       THEN /\ historyIndex' = historyIndex - 1
            /\ card' = card
            /\ currentContent' = RenderContent(card', currentSide)
       ELSE UNCHANGED <<historyIndex, card, currentContent>>
    /\ Ran("undo", FALSE)
    /\ UNCHANGED <<history, selectedElement, isDragging, dragOffset, currentSide,
                   now, initialCard, snap, saveVars, printVars>>

\* undo without its test of historyIndex.
undo_BelowZero ==
    /\ historyIndex' = historyIndex - 1
    /\ card' = IF historyIndex > 0
               THEN ObjectAssign(card, Deref(At(history, historyIndex - 1), card))
               ELSE card
    /\ currentContent' = RenderContent(card', currentSide)
    /\ Ran("undo", FALSE)
    /\ UNCHANGED <<history, selectedElement, isDragging, dragOffset, currentSide,
                   now, initialCard, snap, saveVars, printVars>>

undo ==
    /\ IF historyIndex > 0
       THEN /\ historyIndex' = historyIndex - 1
            /\ card' = ObjectAssign(card, Deref(At(history, historyIndex - 1), card))
            /\ currentContent' = RenderContent(card', currentSide)
       ELSE UNCHANGED <<historyIndex, card, currentContent>>
    /\ Ran("undo", FALSE)
    /\ UNCHANGED <<history, selectedElement, isDragging, dragOffset, currentSide,
                   now, initialCard, snap, saveVars, printVars>>

\* redo without its test of historyIndex.
redo_PastEnd ==
    /\ historyIndex' = historyIndex + 1
    /\ card' = IF historyIndex < Len(history) - 1
               THEN ObjectAssign(card, Deref(At(history, historyIndex + 1), card))
               ELSE card
    /\ currentContent' = RenderContent(card', currentSide)
    /\ Ran("redo", FALSE)
    /\ UNCHANGED <<history, selectedElement, isDragging, dragOffset, currentSide,
                   now, initialCard, snap, saveVars, printVars>>

redo ==
    /\ IF historyIndex < Len(history) - 1
       THEN /\ historyIndex' = historyIndex + 1
            /\ card' = ObjectAssign(card, Deref(At(history, historyIndex + 1), card))
            /\ currentContent' = RenderContent(card', currentSide)
       ELSE UNCHANGED <<historyIndex, card, currentContent>>
    /\ Ran("redo", FALSE)
    /\ UNCHANGED <<history, selectedElement, isDragging, dragOffset, currentSide,
                   now, initialCard, snap, saveVars, printVars>>

\* The disabled attributes of the undo and redo buttons.
undoDisabled == historyIndex = 0
redoDisabled == historyIndex = Len(history) - 1

addElement(type, shapeType, t) ==
    /\ now' = t
    /\ LET newElement  == NewElement(type, shapeType, t,
                                     Len(currentContent.elements) + 1)
           updatedCard == WithElements(Append(currentContent.elements, newElement))
           h           == addToHistory(CopyRef(updatedCard))
       IN  /\ history' = h.history
           /\ historyIndex' = h.historyIndex
           /\ snap' = Remember(updatedCard)
           /\ card' = ObjectAssign(card, updatedCard)
           /\ selectedElement' = newElement.id
    /\ currentContent' = RenderContent(card', currentSide)
    /\ Ran("addElement", TRUE)
    /\ UNCHANGED <<isDragging, dragOffset, currentSide, initialCard, saveVars, printVars>>

\* The properties panel is rendered when the selected id is among the rendered
\* elements (selectedElementData); its buttons pass selectedElement.
PanelShown == /\ selectedElement # Null
              /\ HasElement(currentContent.elements, selectedElement)

deleteElement(elementId) ==
    /\ LET updatedCard == WithElements(FilterOut(currentContent.elements, elementId))
           h           == addToHistory(CopyRef(updatedCard))
       IN  /\ history' = h.history
           /\ historyIndex' = h.historyIndex
           /\ snap' = Remember(updatedCard)
           /\ card' = ObjectAssign(card, updatedCard)
           /\ selectedElement' = Null
    /\ currentContent' = RenderContent(card', currentSide)
    /\ Ran("deleteElement", TRUE)
    /\ UNCHANGED <<isDragging, dragOffset, currentSide, now, initialCard, saveVars, printVars>>

duplicateElement(elementId, t) ==
    /\ IF HasElement(currentContent.elements, elementId)
       THEN LET element     == FindElement(currentContent.elements, elementId)
                newElement  == [ element EXCEPT
                                   !.id = t,
                                   !.x = element.x + 20,
                                   !.y = element.y + 20,
                                   !.zIndex = Len(currentContent.elements) + 1 ]
                updatedCard == WithElements(Append(currentContent.elements, newElement))
                h           == addToHistory(CopyRef(updatedCard))
            IN  /\ history' = h.history
                /\ historyIndex' = h.historyIndex
                /\ snap' = Remember(updatedCard)
                /\ card' = ObjectAssign(card, updatedCard)
                /\ selectedElement' = newElement.id
                /\ currentContent' = RenderContent(card', currentSide)
                /\ now' = t
       ELSE UNCHANGED <<history, historyIndex, snap, card, selectedElement,
                        currentContent, now>>
    /\ Ran("duplicateElement", HasElement(currentContent.elements, elementId))
    /\ UNCHANGED <<isDragging, dragOffset, currentSide, initialCard, saveVars, printVars>>

\* Pointer positions, relative to the canvas (clientX - rect.left, clientY - rect.top).
Pointers == { [x |-> 60, y |-> 60], [x |-> 90, y |-> 75] }

\* The pointer is over the element's box as rendered (left, top, width, height).
Over(p, el) == /\ el.x <= p.x /\ p.x <= el.x + el.width
               /\ el.y <= p.y /\ p.y <= el.y + el.height

\* onMouseDown of a rendered element.
handleMouseDown(p, elementId) ==
    /\ selectedElement' = elementId
    /\ isDragging' = TRUE
    /\ IF HasElement(currentContent.elements, elementId)
       THEN LET element == FindElement(currentContent.elements, elementId)
            IN  dragOffset' = [ x |-> p.x - element.x, y |-> p.y - element.y ]
       ELSE UNCHANGED dragOffset
    /\ currentContent' = RenderContent(card, currentSide)
    /\ RanAt("handleMouseDown", FALSE, p)
    /\ UNCHANGED <<card, history, historyIndex, currentSide, now, initialCard,
                   snap, saveVars, printVars>>

\* handleMouseMove that commits every intermediate position.
handleMouseMove_Commits(p) ==
    /\ IF isDragging /\ selectedElement # Null
       THEN /\ card' = updateElement(selectedElement,
                           [ x |-> p.x - dragOffset.x, y |-> p.y - dragOffset.y ])
            /\ LET h == addToHistory(CardRef)
               IN  /\ history' = h.history
                   /\ historyIndex' = h.historyIndex
            /\ snap' = Remember(card')
       ELSE UNCHANGED <<card, history, historyIndex, snap>>
    /\ RanAt("handleMouseMove", FALSE, p)
    /\ UNCHANGED <<selectedElement, isDragging, dragOffset,
                   currentSide, currentContent, now, initialCard, saveVars, printVars>>

\* onMouseMove of the canvas.
handleMouseMove(p) ==
    /\ IF isDragging /\ selectedElement # Null
       THEN card' = updateElement(selectedElement,
                        [ x |-> p.x - dragOffset.x, y |-> p.y - dragOffset.y ])
       ELSE UNCHANGED card
    /\ RanAt("handleMouseMove", FALSE, p)
    /\ UNCHANGED <<history, historyIndex, selectedElement, isDragging, dragOffset,
                   currentSide, currentContent, now, initialCard, snap, saveVars, printVars>>

\* handleMouseUp without its test of isDragging.
handleMouseUp_AlwaysCommits ==
    /\ isDragging' = FALSE
    /\ LET h == addToHistory(CardRef)
       IN  /\ history' = h.history
           /\ historyIndex' = h.historyIndex
    /\ snap' = Remember(card)
    /\ currentContent' = RenderContent(card, currentSide)
    /\ Ran("handleMouseUp", TRUE)
    /\ UNCHANGED <<card, selectedElement, dragOffset, currentSide, now,
                   initialCard, saveVars, printVars>>

\* onMouseUp and onMouseLeave of the canvas.
handleMouseUp ==
    /\ IF isDragging
       THEN            /\ isDragging' = FALSE
            /\ LET h == addToHistory(CardRef)
               IN  /\ history' = h.history
                   /\ historyIndex' = h.historyIndex
            /\ snap' = Remember(card)
            /\ currentContent' = RenderContent(card, currentSide)
       ELSE UNCHANGED <<isDragging, history, historyIndex, snap, currentContent>>
    /\ Ran("handleMouseUp", isDragging)
    /\ UNCHANGED <<card, selectedElement, dragOffset, currentSide, now,
                   initialCard, saveVars, printVars>>

\* The Front / Back buttons: setCurrentSide(side); a render follows a change.
setCurrentSide(side) ==
    /\ currentSide' = side
    /\ currentContent' = IF side # currentSide THEN RenderContent(card, side)
                         ELSE currentContent
    /\ Ran("setCurrentSide", FALSE)
    /\ UNCHANGED <<card, history, historyIndex, selectedElement, isDragging,
                   dragOffset, now, initialCard, snap, saveVars, printVars>>

\* The values the inputs of the properties panel can pass for an element.
PropertyEdits(el) ==
    { [ color |-> "#ff0000" ] } \cup
    (IF el.type = "text" THEN { [ fontSize |-> 24 ] } ELSE {})

\* onChange / onClick of the properties panel: updateElement(selectedElement!, updates).
editProperty(updates) ==
    /\ card' = updateElement(selectedElement, updates)
    /\ Ran("updateElement", FALSE)
    /\ UNCHANGED <<history, historyIndex, selectedElement, isDragging, dragOffset,
                   currentSide, currentContent, now, initialCard, snap, saveVars, printVars>>

\* onChange of the title input: updateElement('title', {content}).
TitleId == -1        \* the id 'title', which no element has

editTitle ==
    /\ card' = updateElement(TitleId, [ content |-> "Typed" ])
    /\ Ran("editTitle", FALSE)
    /\ UNCHANGED <<history, historyIndex, selectedElement, isDragging, dragOffset,
                   currentSide, currentContent, now, initialCard, snap, saveVars, printVars>>

\* What saveCard sends to the persistence service.
SaveRequest(c) ==
    [ front_content |-> c.front_content,
      back_content  |-> c.back_content,
      title         |-> c.title ]

\* saveCard, up to its await: the update request is sent.
saveCard ==
    /\ pendingSaves' = Append(pendingSaves, SaveRequest(card))
    /\ Ran("saveCard", FALSE)
    /\ UNCHANGED <<card, history, historyIndex, selectedElement, isDragging,
                   dragOffset, currentSide, currentContent, now, initialCard,
                   snap, onSaveCalls, printVars>>

\* An event that is not a handler of the rendered editor: the end of an await.
Resumed(op) ==
    /\ steps < MaxSteps
    /\ steps' = steps + 1
    /\ lastOp' = [ op |-> op, commit |-> FALSE,
                   cursor |-> historyIndex, length |-> Len(history),
                   pointer |-> NoPointer, card |-> card ]

\* The ways the k-th pending update can fail: it resolves with an error (which
\* saveCard throws) or the awaited call throws.
SaveFailures == { "error", "throws" }

\* saveCard after its await, the update having succeeded: onSave(card).
saveSucceeds(k) ==
    /\ k \in 1..Len(pendingSaves)
    /\ onSaveCalls' = Append(onSaveCalls, [ sent |-> pendingSaves[k], card |-> card ])
    /\ pendingSaves' = WithoutIndex(pendingSaves, k)
    /\ Resumed("saveSucceeds")
    /\ UNCHANGED <<card, history, historyIndex, selectedElement, isDragging,
                   dragOffset, currentSide, currentContent, now, initialCard,
                   snap, printVars>>

\* saveCard calling onSave whatever the outcome of the update.
saveFails_CallsOnSave(k, failure) ==
    /\ k \in 1..Len(pendingSaves)
    /\ failure \in SaveFailures
    /\ onSaveCalls' = Append(onSaveCalls, [ sent |-> pendingSaves[k], card |-> card ])
    /\ pendingSaves' = WithoutIndex(pendingSaves, k)
    /\ Resumed("saveFails")
    /\ UNCHANGED <<card, history, historyIndex, selectedElement, isDragging,
                   dragOffset, currentSide, currentContent, now, initialCard,
                   snap, printVars>>

\* saveCard after its await, the update having failed: the catch block logs.
saveFails(k, failure) ==
    /\ k \in 1..Len(pendingSaves)
    /\ failure \in SaveFailures
    /\ pendingSaves' = WithoutIndex(pendingSaves, k)
    /\ Resumed("saveFails")
    /\ UNCHANGED <<card, history, historyIndex, selectedElement, isDragging,
                   dragOffset, currentSide, currentContent, now, initialCard,
                   snap, onSaveCalls, printVars>>

\* Date.now() as a handler can read it: the clock never runs backwards, and two
\* reads may fall in the same millisecond.
ClockReadings == now..MaxClock

----------------------------------------------------------------------------
\* A state variable that holds null, or a value.
None    == [ null |-> TRUE ]
Some(v) == [ null |-> FALSE, value |-> v ]

\* processFile is not running.
Idle == [ pc |-> "idle", content |-> << >>, extractedCards |-> << >> ]

\* The import dialog is not open during an editing or a printing session.
ImportIdle ==
    /\ file = None
    /\ processing = FALSE
    /\ result = None
    /\ error = None
    /\ run = Idle
    /\ imported = << >>

\* The print preview is not open during an editing session.
PrintIdle ==
    /\ deck = [ card_size |-> "3x5", custom_width |-> 0, custom_height |-> 0 ]
    /\ cards = << >>
    /\ printSettings = [ cardSize |-> "3x5", cardsPerPage |-> 6, includeBack |-> TRUE,
                         paperSize |-> "letter", orientation |-> "portrait",
                         margins |-> "normal" ]
    /\ pc = "closed"
    /\ i = 0
    /\ pages = << >>

Init ==
    /\ card \in LoadedCards
    /\ history = << CardRef >>
    /\ historyIndex = 0
    /\ selectedElement = Null
    /\ isDragging = FALSE
    /\ dragOffset = [ x |-> 0, y |-> 0 ]
    /\ currentSide = "front"
    /\ currentContent = RenderContent(card, "front")
    /\ now = StartClock
    /\ initialCard = card
    /\ snap = << card >>
    /\ lastOp = [ op |-> "open", commit |-> FALSE, cursor |-> 0, length |-> 1,
                pointer |-> NoPointer, card |-> card ]
    /\ steps = 0
    /\ pendingSaves = << >>
    /\ onSaveCalls = << >>
    /\ PrintIdle
    /\ ImportIdle

Next ==
    \/ undo
    \/ redo
    \/ \E b \in ButtonsPressed : \E t \in ClockReadings : addElement(b[1], b[2], t)
    \/ PanelShown /\ deleteElement(selectedElement)
    \/ PanelShown /\ \E t \in ClockReadings : duplicateElement(selectedElement, t)
    \/ \E p \in Pointers : \E k \in 1..Len(currentContent.elements) :
          /\ Over(p, currentContent.elements[k])
          /\ handleMouseDown(p, currentContent.elements[k].id)
    \/ \E p \in Pointers : handleMouseMove(p)
    \/ handleMouseUp
    \/ \E side \in Sides : setCurrentSide(side)
    \/ PanelShown /\
         \E u \in PropertyEdits(FindElement(currentContent.elements, selectedElement)) :
            editProperty(u)
    \/ editTitle
    \/ saveCard
    \/ \E k \in 1..Len(pendingSaves) : saveSucceeds(k)
    \/ \E k \in 1..Len(pendingSaves) : \E failure \in SaveFailures : saveFails(k, failure)

Spec == Init /\ [][Next]_vars

----------------------------------------------------------------------------
\* The print preview: values

CardSizeNames  == { "3x5", "4x6", "5x8", "custom" }
PaperSizeNames == { "letter", "a4", "legal" }
MarginNames    == { "normal", "narrow" }
Orientations   == { "portrait", "landscape" }

\* deck.custom_width || 216 : the default stands in for an absent value and for 0.
\* (A deck without custom dimensions is modelled with 0 for both.)
OrDefault(value, default) == IF value = 0 THEN default ELSE value

\* cardSizes with the custom entry reading nothing from the deck.
cardSizes_IgnoresDeck(d, name) ==
    CASE name = "3x5"    -> [ width |-> 216, height |-> 360 ]
      [] name = "4x6"    -> [ width |-> 288, height |-> 432 ]
      [] name = "5x8"    -> [ width |-> 360, height |-> 576 ]
      [] name = "custom" -> [ width |-> 216, height |-> 360 ]

\* The table cardSizes, which reads the deck.
cardSizes(d, name) ==
    CASE name = "3x5"    -> [ width |-> 216, height |-> 360 ]
      [] name = "4x6"    -> [ width |-> 288, height |-> 432 ]
      [] name = "5x8"    -> [ width |-> 360, height |-> 576 ]
      [] name = "custom" -> [ width  |-> OrDefault(d.custom_width, 216),
                              height |-> OrDefault(d.custom_height, 360) ]

\* The table paperSizes.
paperSizes(name) ==
    CASE name = "letter" -> [ width |-> 612, height |-> 792 ]
      [] name = "a4"     -> [ width |-> 595, height |-> 842 ]
      [] name = "legal"  -> [ width |-> 612, height |-> 1008 ]

\* Math.floor(a / b) for a >= 0 and b # 0: the quotient rounded down, which for
\* a negative divisor is minus the quotient of the magnitudes rounded up.
FloorDiv(a, b) ==
    IF b > 0 THEN a \div b
    ELSE 0 - ((a + (0 - b) - 1) \div (0 - b))

\* calculateLayout without the 18pt spacing.
calculateLayout_NoSpacing(d, settings) ==
    LET cardSize        == cardSizes(d, settings.cardSize)
        paperSize       == paperSizes(settings.paperSize)
        margin          == IF settings.margins = "normal" THEN 36 ELSE 18
        availableWidth  == paperSize.width - (margin * 2)
        availableHeight == paperSize.height - (margin * 2)
        cardsPerRow     == FloorDiv(availableWidth, cardSize.width)
        rowsPerPage     == FloorDiv(availableHeight, cardSize.height)
        cardsPerPage    == cardsPerRow * rowsPerPage
    IN  [ cardsPerRow |-> cardsPerRow, rowsPerPage |-> rowsPerPage,
          cardsPerPage |-> cardsPerPage ]

\* calculateLayout with the paper turned for landscape.
calculateLayout_Transposed(d, settings) ==
    LET cardSize        == cardSizes(d, settings.cardSize)
        paper           == paperSizes(settings.paperSize)
        paperSize       == IF settings.orientation = "landscape"
                           THEN [ width |-> paper.height, height |-> paper.width ]
                           ELSE paper
        margin          == IF settings.margins = "normal" THEN 36 ELSE 18
        availableWidth  == paperSize.width - (margin * 2)
        availableHeight == paperSize.height - (margin * 2)
        cardsPerRow     == FloorDiv(availableWidth, cardSize.width + 18)
        rowsPerPage     == FloorDiv(availableHeight, cardSize.height + 18)
        cardsPerPage    == cardsPerRow * rowsPerPage
    IN  [ cardsPerRow |-> cardsPerRow, rowsPerPage |-> rowsPerPage,
          cardsPerPage |-> cardsPerPage ]

\* calculateLayout giving half the capacity when back sides are printed.
calculateLayout_HalvedForBacks(d, settings) ==
    LET cardSize        == cardSizes(d, settings.cardSize)
        paperSize       == paperSizes(settings.paperSize)
        margin          == IF settings.margins = "normal" THEN 36 ELSE 18
        availableWidth  == paperSize.width - (margin * 2)
        availableHeight == paperSize.height - (margin * 2)
        cardsPerRow     == FloorDiv(availableWidth, cardSize.width + 18)
        rowsPerPage     == FloorDiv(availableHeight, cardSize.height + 18)
        cardsPerPage    == IF settings.includeBack
                           THEN cardsPerRow * rowsPerPage
                           ELSE (cardsPerRow * rowsPerPage) * 2
    IN  [ cardsPerRow |-> cardsPerRow, rowsPerPage |-> rowsPerPage,
          cardsPerPage |-> cardsPerPage ]

\* calculateLayout(), for the deck and the settings it reads.
calculateLayout(d, settings) ==
    LET cardSize        == cardSizes(d, settings.cardSize)
        paperSize       == paperSizes(settings.paperSize)
        margin          == IF settings.margins = "normal" THEN 36 ELSE 18
        availableWidth  == paperSize.width - (margin * 2)
        availableHeight == paperSize.height - (margin * 2)
        cardsPerRow     == FloorDiv(availableWidth, cardSize.width + 18)
        rowsPerPage     == FloorDiv(availableHeight, cardSize.height + 18)
        cardsPerPage    == cardsPerRow * rowsPerPage
    IN  [ cardsPerRow |-> cardsPerRow, rowsPerPage |-> rowsPerPage,
          cardsPerPage |-> cardsPerPage ]

\* Min(a, b)
Min(a, b) == IF a <= b THEN a ELSE b

\* Max(a, b)
Max(a, b) == IF a >= b THEN a ELSE b

\* The index array.slice makes of an argument: a negative one counts from the
\* end, and the result is kept within 0..length.
SliceIndex(array, k) ==
    IF k < 0 THEN Max(Len(array) + k, 0) ELSE Min(k, Len(array))

\* array.slice(from, to) (0-based, `to` excluded; empty when to <= from).
Slice(array, from, to) ==
    SubSeq(array, SliceIndex(array, from) + 1, SliceIndex(array, to))

\* The state the first render starts from: useState({cardSize: deck.card_size, ...}).
InitialSettings(d) ==
    [ cardSize |-> d.card_size, cardsPerPage |-> 6, includeBack |-> TRUE,
      paperSize |-> "letter", orientation |-> "portrait", margins |-> "normal" ]

\* Custom dimensions a deck may carry (the columns are INTEGER, unconstrained):
\* none, a small card, a card wider than any paper, a card taller than any
\* paper, a negative width.
CustomDimensions ==
    { <<0, 0>>, <<100, 100>>, <<700, 100>>, <<100, 1100>>, <<-100, 100>> }

\* The decks a preview is opened on; a deck of card_size custom carries dimensions.
Decks ==
    { d \in { [ card_size |-> c, custom_width |-> wh[1], custom_height |-> wh[2] ] :
                c \in CardSizeNames, wh \in CustomDimensions } :
        d.card_size = "custom" => d.custom_width # 0 }

\* The card lists handed over: the first n cards of a deck, named by their ids,
\* which are not in increasing order.
CardId(k) == (k * 3) % 7

CardLists == { [ k \in 1..n |-> CardId(k) ] : n \in 0..MaxCards }

\* The pagination loop is followed for this many pages (more than any run that
\* ends needs: 2 * MaxCards).
LoopBound == 2 * MaxCards + 1

----------------------------------------------------------------------------
\* The print preview: generatePrintPages, one loop iteration at a time

cardsPerPageNow == calculateLayout(deck, printSettings).cardsPerPage

\* One of the two loops of generatePrintPages run to its end (or for as many
\* passes as there is room for under LoopBound): the pages it appends to acc.
RECURSIVE LoopPages(_, _, _, _, _)
LoopPages(type, list, from, cardsPerPage, acc) ==
    IF from < Len(list) /\ Len(acc) < LoopBound
    THEN LoopPages(type, list, from + cardsPerPage, cardsPerPage,
                   Append(acc, [ type  |-> type,
                                 cards |-> Slice(list, from, from + cardsPerPage) ]))
    ELSE acc

\* generatePrintPages() as a function of what it reads.
generatePrintPages(d, list, settings) ==
    LET cardsPerPage == calculateLayout(d, settings).cardsPerPage
        fronts       == LoopPages("front", list, 0, cardsPerPage, << >>)
    IN  IF settings.includeBack
        THEN LoopPages("back", list, 0, cardsPerPage, fronts)
        ELSE fronts

\* The page number in the heading of the page at pageIndex (0-based):
\* Math.floor(pageIndex / (printSettings.includeBack ? 2 : 1)) + 1
PageNumberShown(pageIndex, settings) ==
    FloorDiv(pageIndex, IF settings.includeBack THEN 2 ELSE 1) + 1

\* The "front sides" loop with a slice one card short.
FrontPage_ShortSlice ==
    /\ pc = "front"
    /\ i < Len(cards)
    /\ Len(pages) < LoopBound
    /\ pages' = Append(pages, [ type  |-> "front",
                                cards |-> Slice(cards, i, i + cardsPerPageNow - 1) ])
    /\ i' = i + cardsPerPageNow
    /\ UNCHANGED <<pc, deck, cards, printSettings, editorVars>>

\* The "front sides" loop with its body run before its test (do ... while).
FrontPage_BodyFirst ==
    /\ pc = "front"
    /\ (i < Len(cards) \/ pages = << >>)
    /\ Len(pages) < LoopBound
    /\ pages' = Append(pages, [ type  |-> "front",
                                cards |-> Slice(cards, i, i + cardsPerPageNow) ])
    /\ i' = i + cardsPerPageNow
    /\ UNCHANGED <<pc, deck, cards, printSettings, editorVars>>

\* One pass through the body of the "front sides" loop.
FrontPage ==
    /\ pc = "front"
    /\ i < Len(cards)
    /\ Len(pages) < LoopBound
    /\ pages' = Append(pages, [ type  |-> "front",
                                cards |-> Slice(cards, i, i + cardsPerPageNow) ])
    /\ i' = i + cardsPerPageNow
    /\ UNCHANGED <<pc, deck, cards, printSettings, editorVars>>

\* The "front sides" loop ends; the "back sides" loop starts if enabled.
FrontDone ==
    /\ pc = "front"
    /\ ~(i < Len(cards))
    /\ IF printSettings.includeBack
       THEN pc' = "back" /\ i' = 0
       ELSE pc' = "done" /\ i' = i
    /\ UNCHANGED <<pages, deck, cards, printSettings, editorVars>>

\* The "back sides" loop slicing from the end of the list.
BackPage_FromTheEnd ==
    /\ pc = "back"
    /\ i < Len(cards)
    /\ Len(pages) < LoopBound
    /\ pages' = Append(pages,
          [ type  |-> "back",
            cards |-> Slice(cards, Len(cards) - Min(Len(cards), i + cardsPerPageNow),
                            Len(cards) - i) ])
    /\ i' = i + cardsPerPageNow
    /\ UNCHANGED <<pc, deck, cards, printSettings, editorVars>>

\* One pass through the body of the "back sides" loop.
BackPage ==
    /\ pc = "back"
    /\ i < Len(cards)
    /\ Len(pages) < LoopBound
    /\ pages' = Append(pages, [ type  |-> "back",
                                cards |-> Slice(cards, i, i + cardsPerPageNow) ])
    /\ i' = i + cardsPerPageNow
    /\ UNCHANGED <<pc, deck, cards, printSettings, editorVars>>

\* return pages
BackDone ==
    /\ pc = "back"
    /\ ~(i < Len(cards))
    /\ pc' = "done"
    /\ UNCHANGED <<i, pages, deck, cards, printSettings, editorVars>>

\* A control of the settings panel: setPrintSettings({...printSettings, field: value});
\* the render that follows calls generatePrintPages again.
SettingValues(field) ==
    CASE field = "cardSize"    -> CardSizeNames
      [] field = "paperSize"   -> PaperSizeNames
      [] field = "orientation" -> Orientations
      [] field = "margins"     -> MarginNames
      [] field = "includeBack" -> BOOLEAN

setPrintSettings(field, value) ==
    /\ pc = "done"
    /\ printSettings' = [ printSettings EXCEPT ![field] = value ]
    /\ pc' = "front"
    /\ i' = 0
    /\ pages' = << >>
    /\ UNCHANGED <<deck, cards, editorVars>>

\* The editor is not open while the print preview is.
EditorIdle ==
    /\ card = MakeCard(<< >>, << >>)
    /\ history = << CardRef >>
    /\ historyIndex = 0
    /\ selectedElement = Null
    /\ isDragging = FALSE
    /\ dragOffset = [ x |-> 0, y |-> 0 ]
    /\ currentSide = "front"
    /\ currentContent = RenderContent(card, "front")
    /\ now = StartClock
    /\ initialCard = card
    /\ snap = << card >>
    /\ lastOp = [ op |-> "closed", commit |-> FALSE, cursor |-> 0, length |-> 1,
                pointer |-> NoPointer, card |-> card ]
    /\ steps = 0
    /\ pendingSaves = << >>
    /\ onSaveCalls = << >>

PrintInit ==
    /\ deck \in Decks
    /\ cards \in CardLists
    /\ printSettings = InitialSettings(deck)
    /\ pc = "front"
    /\ i = 0
    /\ pages = << >>
    /\ EditorIdle
    /\ ImportIdle

PrintNext ==
    \/ FrontPage
    \/ FrontDone
    \/ BackPage
    \/ BackDone
    \/ \E field \in { "cardSize", "paperSize", "orientation", "margins", "includeBack" } :
          \E value \in SettingValues(field) : setPrintSettings(field, value)

PrintSpec == PrintInit /\ [][PrintNext]_vars

----------------------------------------------------------------------------
\* The AI import (src/src/components/ai/AIImport.tsx): values

\* A text is a sequence of tokens: a word of prose, the punctuation of a JSON
\* array, an object with a front and a back text, a number.
Tokens == { "w", "[", "]", ",", "card", "1" }

Texts == UNION { [ 1..n -> Tokens ] : n \in 0..MaxText }

\* Values JSON.parse returns.
JObject(props) == [ kind |-> "object", props |-> props ]
JNumber        == [ kind |-> "number" ]
JArray(items)  == [ kind |-> "array", items |-> items ]

\* The object the token "card" stands for.
CardObject == JObject([ front |-> << "Q" >>, back |-> << "A" >> ])

\* content.match(/\[[\s\S]*\]/): from the first "[" to the last "]" after it.
Brackets(content) ==
    { <<a, b>> \in (1..Len(content)) \X (1..Len(content)) :
        /\ a < b
        /\ content[a] = "["
        /\ content[b] = "]"
        /\ \A k \in 1..(a - 1) : content[k] # "["
        /\ \A k \in (b + 1)..Len(content) : content[k] # "]" }

jsonMatch(content) ==
    IF Brackets(content) = {} THEN None
    ELSE LET ab == CHOOSE ab \in Brackets(content) : TRUE
         IN  Some(SubSeq(content, ab[1], ab[2]))

\* JSON.parse, by recursive descent: a value starting at token k, and a list of
\* values separated by commas and closed by "]".
Unparsed == [ ok |-> FALSE, value |-> JNumber, next |-> 0 ]

RECURSIVE ParseValue(_, _)
RECURSIVE ParseItems(_, _, _)
ParseValue(ts, k) ==
    IF k > Len(ts) THEN Unparsed
    ELSE CASE ts[k] = "card" -> [ ok |-> TRUE, value |-> CardObject, next |-> k + 1 ]
           [] ts[k] = "1"    -> [ ok |-> TRUE, value |-> JNumber, next |-> k + 1 ]
           [] ts[k] = "["    ->
                IF k + 1 <= Len(ts) /\ ts[k + 1] = "]"
                THEN [ ok |-> TRUE, value |-> JArray(<< >>), next |-> k + 2 ]
                ELSE ParseItems(ts, k + 1, << >>)
           [] OTHER          -> Unparsed

ParseItems(ts, k, acc) ==
    LET v == ParseValue(ts, k)
    IN  IF ~v.ok \/ v.next > Len(ts) THEN Unparsed
        ELSE CASE ts[v.next] = "," -> ParseItems(ts, v.next + 1, Append(acc, v.value))
               [] ts[v.next] = "]" -> [ ok |-> TRUE,
                                        value |-> JArray(Append(acc, v.value)),
                                        next |-> v.next + 1 ]
               [] OTHER            -> Unparsed

\* JSON.parse(text): the value, or a SyntaxError (ok = FALSE).
JSONparse(ts) ==
    LET v == ParseValue(ts, 1)
    IN  IF v.ok /\ v.next = Len(ts) + 1 THEN v ELSE Unparsed

\* A fallback that keeps the title and drops the raw text.
Fallback_NoText(content) ==
    << JObject([ front |-> << "Extracted Content" >>, back |-> << >> ]) >>

\* [{ front: 'Extracted Content', back: content }]
Fallback(content) ==
    << JObject([ front |-> << "Extracted Content" >>, back |-> content ]) >>

\* The try block that makes extractedCards of the content.  (The matched text
\* starts with "[", so what JSON.parse returns of it is an array.)
extractedCards(content) ==
    LET match == jsonMatch(content)
    IN  IF match.null THEN Fallback(content)
        ELSE LET parsed == JSONparse(match.value)
             IN  IF parsed.ok
                 THEN parsed.value.items
                 ELSE Fallback(content)

\* The files the user can choose.
Files == { "notes.pdf", "page.png" }

\* How the awaited calls can end.
ProfileOutcomes == { "key", "no key" }
ReadOutcomes    == { "loaded", "failed" }
FetchOutcomes   == { "ok", "not ok", "rejects" }
JsonOutcomes    == { "rejects", "no content" }
InsertOutcomes  == { "stored", "error" }

At_(pc_) == [ pc |-> pc_, content |-> << >>, extractedCards |-> << >> ]

\* The import dialog is rendered until handleImport calls onClose.
ImportMounted == imported = << >>

----------------------------------------------------------------------------
\* The AI import: the handlers, and processFile one await at a time

handleFileSelect(selectedFile) ==
    /\ ImportMounted
    /\ file.null
    /\ file' = Some(selectedFile)
    /\ result' = None
    /\ error' = None
    /\ UNCHANGED <<processing, run, imported, editorOnly, printOnly>>

\* The buttons "Choose Different File", "Try Again", "Process Another File".
setFileNull ==
    /\ ImportMounted
    /\ \/ (~file.null /\ ~processing /\ result.null)
       \/ ~error.null
       \/ ~result.null
    /\ file' = None
    /\ UNCHANGED <<processing, result, error, run, imported, editorOnly, printOnly>>

\* processFile up to its first await ("Extract Content").
processFile ==
    /\ ImportMounted
    /\ ~file.null /\ ~processing /\ result.null
    /\ run.pc = "idle"
    /\ processing' = TRUE
    /\ error' = None
    /\ run' = At_("profile")
    /\ UNCHANGED <<file, result, imported, editorOnly, printOnly>>

\* The catch block without the finally block.
Caught_NoFinally(message) ==
    /\ error' = Some(message)
    /\ run' = Idle
    /\ UNCHANGED <<file, processing, result, imported, editorOnly, printOnly>>

\* catch (err) { setError(...) } finally { setProcessing(false) }
Caught(message) ==
    /\ error' = Some(message)
    /\ processing' = FALSE
    /\ run' = Idle
    /\ UNCHANGED <<file, result, imported, editorOnly, printOnly>>

Continue(pc_) ==
    /\ run' = At_(pc_)
    /\ UNCHANGED <<file, processing, result, error, imported, editorOnly, printOnly>>

profileReturns(outcome) ==
    /\ run.pc = "profile"
    /\ IF outcome = "key" THEN Continue("base64")
       ELSE Caught("Please add your Gemini API key in settings first")

fileRead(outcome) ==
    /\ run.pc = "base64"
    /\ IF outcome = "loaded" THEN Continue("fetch")
       ELSE Caught("An error occurred")

fetchReturns(outcome) ==
    /\ run.pc = "fetch"
    /\ CASE outcome = "ok"      -> Continue("json")
         [] outcome = "not ok"  -> Caught("Failed to process file with AI")
         [] outcome = "rejects" -> Caught("Failed to fetch")

\* response.json() fails, or gives no text, or gives an empty text.
jsonFails(outcome) ==
    /\ run.pc = "json"
    /\ IF outcome = "rejects" THEN Caught("Unexpected end of JSON input")
       ELSE Caught("No content extracted from file")

\* response.json() gives a text: extractedCards is made and its insert is sent.
jsonReturns(content) ==
    /\ run.pc = "json"
    /\ IF content = << >>
       THEN Caught("No content extracted from file")
       ELSE /\ run' = [ pc |-> "insert", content |-> content,
                        extractedCards |-> extractedCards(content) ]
            /\ UNCHANGED <<file, processing, result, error, imported,
                           editorOnly, printOnly>>

\* The insert resolves (its outcome is not looked at): setResult, and finally.
insertReturns(outcome) ==
    /\ run.pc = "insert"
    /\ outcome \in InsertOutcomes
    /\ result' = Some(run.extractedCards)
    /\ processing' = FALSE
    /\ run' = Idle
    /\ UNCHANGED <<file, error, imported, editorOnly, printOnly>>

\* "Import Cards"
handleImport ==
    /\ ImportMounted
    /\ ~result.null
    /\ imported' = Append(imported, result.value)
    /\ UNCHANGED <<file, processing, result, error, run, editorOnly, printOnly>>

ImportInit ==
    /\ ImportIdle
    /\ EditorIdle
    /\ PrintIdle

ImportNext ==
    \/ \E f \in Files : handleFileSelect(f)
    \/ setFileNull
    \/ processFile
    \/ \E outcome \in ProfileOutcomes : profileReturns(outcome)
    \/ \E outcome \in ReadOutcomes : fileRead(outcome)
    \/ \E outcome \in FetchOutcomes : fetchReturns(outcome)
    \/ \E outcome \in JsonOutcomes : jsonFails(outcome)
    \/ \E content \in Texts : jsonReturns(content)
    \/ \E outcome \in InsertOutcomes : insertReturns(outcome)
    \/ handleImport

ImportSpec == ImportInit /\ [][ImportNext]_vars

\* Every awaited call settles: the profile lookup, the FileReader, the request,
\* the reading of its body and the insert each end, one way or another.
AwaitsSettle ==
    /\ WF_vars(\E outcome \in ProfileOutcomes : profileReturns(outcome))
    /\ WF_vars(\E outcome \in ReadOutcomes : fileRead(outcome))
    /\ WF_vars(\E outcome \in FetchOutcomes : fetchReturns(outcome))
    /\ WF_vars(\/ \E outcome \in JsonOutcomes : jsonFails(outcome)
               \/ \E content \in Texts : jsonReturns(content))
    /\ WF_vars(\E outcome \in InsertOutcomes : insertReturns(outcome))

ImportLiveSpec == ImportInit /\ [][ImportNext]_vars /\ AwaitsSettle

----------------------------------------------------------------------------
\* Properties of the editor

\* The elements of one side of the live card.
SideElements(side) == card[SideKey(side)].elements

\* C1: after a committed mutation (addElement, deleteElement, duplicateElement, a
\* completed drag), an immediate undo makes the live card equal to the document
\* that was committed immediately before it: the snapshot at the new cursor, as
\* it was when it was stored.  Stated of every step: an undo that follows a
\* committing handler leaves card = snap[the new cursor].
C1_UndoRestoresPrecedingState ==
    [][ (lastOp.commit /\ lastOp'.op = "undo")
          => card' = snap'[historyIndex' + 1] ]_vars

\* C2: a snapshot stored in the history keeps the content it was stored with for
\* as long as it stays in the history: every entry, read now, is the document it
\* was when it was stored.
C2_SnapshotsNeverChange ==
    \A k \in 1..Len(history) : Deref(history[k], card) = snap[k]

\* C3: a commit made with the cursor at c replaces the history by its first c+1
\* entries, unchanged and in order, followed by the new snapshot, and puts the
\* cursor on the new last entry; so the length is c+2 and redo is unavailable,
\* also when undos preceded the commit.  (Entries are compared as the array holds
\* them; what an entry shows when read is the subject of C2.)
C3_CommitTruncatesAndAppends ==
    [][ lastOp'.commit =>
          /\ Len(history') = historyIndex + 2
          /\ SubSeq(history', 1, historyIndex + 1) = SubSeq(history, 1, historyIndex + 1)
          /\ historyIndex' = Len(history') - 1
          /\ ~(historyIndex' < Len(history') - 1) ]_vars

\* C3, witness: a commit has just been made from a cursor that had redo states
\* after it, and they are gone.
C3_Witness ==
    /\ lastOp.commit
    /\ lastOp.cursor < lastOp.length - 1
    /\ Len(history) = lastOp.cursor + 2
    /\ historyIndex = Len(history) - 1

\* C4: in every reachable state 0 <= historyIndex < history.length.
C4_CursorInRange ==
    /\ 0 <= historyIndex
    /\ historyIndex < Len(history)

\* C4, witness: the cursor has been moved back to 0 by undo in a history of three
\* entries, and so has been at both ends.
C4_Witness ==
    /\ lastOp.op = "undo"
    /\ lastOp.cursor = 1
    /\ historyIndex = 0
    /\ Len(history) = 3

\* C5: the element ids within each side of the card are pairwise distinct, also
\* when two creations read the same clock value.
C5_IdsUniquePerSide ==
    \A side \in Sides :
        \A j, k \in 1..Len(SideElements(side)) :
            j # k => SideElements(side)[j].id # SideElements(side)[k].id

\* C11: immediately after every commit (addElement, deleteElement,
\* duplicateElement, a drag release), every undo and every redo that the enabled
\* control performs, the snapshot at history[historyIndex], read then, equals the
\* live card, and the content rendered is that of the live card.
C11_CursorSnapshotIsLiveCard ==
    [][ ( \/ lastOp'.commit
          \/ (lastOp'.op = "undo" /\ ~undoDisabled)
          \/ (lastOp'.op = "redo" /\ ~redoDisabled) )
        => /\ Deref(At(history', historyIndex'), card') = card'
           /\ currentContent' = RenderContent(card', currentSide') ]_vars

\* C11, witness: an undo has just moved the cursor from 2 to 1, onto a snapshot
\* that is an object of its own, and the live card equals it.
C11_Witness ==
    /\ lastOp.op = "undo"
    /\ lastOp.cursor = 2
    /\ historyIndex = 1
    /\ At(history, 1).ref = "copy"
    /\ At(history, 1).val = card

\* C12: snapshot 0 is the card as it was loaded: when undo has brought the cursor
\* to 0, the live card equals the initially loaded card.
C12_UndoToStartRestoresLoadedCard ==
    (lastOp.op = "undo" /\ lastOp.cursor > 0 /\ historyIndex = 0)
        => card = initialCard

\* C13: undo called with the cursor at 0 and redo called with the cursor at the
\* last index change neither the cursor, nor the history, nor the live card; the
\* undo control is disabled exactly when the cursor is 0 and the redo control
\* exactly when it is the last index, and in every other state the operation
\* moves the cursor.
C13_NoOpAtTheEnds ==
    [][ /\ (lastOp'.op = "undo" /\ historyIndex = 0)
            => UNCHANGED <<historyIndex, history, card>>
        /\ (lastOp'.op = "redo" /\ historyIndex = Len(history) - 1)
            => UNCHANGED <<historyIndex, history, card>>
        /\ undoDisabled <=> (historyIndex = 0)
        /\ redoDisabled <=> (historyIndex = Len(history) - 1)
        /\ (lastOp'.op = "undo" /\ ~undoDisabled) => historyIndex' = historyIndex - 1
        /\ (lastOp'.op = "redo" /\ ~redoDisabled) => historyIndex' = historyIndex + 1
      ]_vars

\* C13, witness: redo has been called with the cursor at the last of at least two
\* entries, and the cursor and the length are what they were.
C13_Witness ==
    /\ lastOp.op = "redo"
    /\ lastOp.length >= 2
    /\ lastOp.cursor = lastOp.length - 1
    /\ historyIndex = lastOp.cursor
    /\ Len(history) = lastOp.length

\* The live card with the attributes u written into the elements of the active
\* side that have the selected id, and nothing else changed.
OnlyUpdated(u) ==
    [ card EXCEPT ![SideKey(currentSide)].elements =
        UpdatedElements(@, selectedElement, u) ]

\* C14: updateElement(id, attrs) on an element present in the active side of the
\* live card changes exactly the supplied attributes of that element: all other
\* attributes, all other elements and the rest of the card keep the values they
\* had in the live card immediately before the call, also when the call follows
\* another updateElement with no render in between.  Stated of the calls made by
\* the properties panel and by a pointer-move of a drag.
C14_UpdateChangesOnlySuppliedAttributes ==
    [][ HasElement(SideElements(currentSide), selectedElement) =>
          /\ lastOp'.op = "updateElement" =>
                \E u \in PropertyEdits(FindElement(SideElements(currentSide),
                                                   selectedElement)) :
                    card' = OnlyUpdated(u)
          /\ (lastOp'.op = "handleMouseMove" /\ isDragging) =>
                \E p \in Pointers :
                    card' = OnlyUpdated([ x |-> p.x - dragOffset.x,
                                          y |-> p.y - dragOffset.y ]) ]_vars

\* C15: updateElement never commits: a property edit, a title edit and a
\* pointer-move leave the history and historyIndex as they were, and so the
\* availability of undo and redo.
C15_UpdateNeverCommits ==
    [][ lastOp'.op \in { "updateElement", "editTitle", "handleMouseMove" } =>
          /\ UNCHANGED <<history, historyIndex>>
          /\ Len(history') = Len(history)
          /\ undoDisabled' = undoDisabled
          /\ redoDisabled' = redoDisabled ]_vars

\* C15, witness: a pointer-move of a drag has moved the selected element (pressed
\* at (60,60), moved to (90,75)) and the history has the length it had.
C15_Witness ==
    /\ lastOp.op = "handleMouseMove"
    /\ isDragging
    /\ HasElement(SideElements(currentSide), selectedElement)
    /\ FindElement(SideElements(currentSide), selectedElement).x = 80
    /\ Len(history) = lastOp.length
    /\ historyIndex = lastOp.cursor

\* A release (pointer-up or pointer-leave) that ends a drag in which the last
\* event was a pointer-move.
ReleaseAfterMove ==
    /\ lastOp.op = "handleMouseMove"
    /\ isDragging
    /\ lastOp'.op = "handleMouseUp"

\* C16 as stated: a drag gesture (pointer-down on an element, one or more
\* pointer-moves, then pointer-up or pointer-leave) leaves the history length as
\* it is during the press and the moves and increases it by exactly one at the
\* release; a pointer-up or pointer-leave in Idle adds nothing.
C16_DragAddsOneToLength ==
    [][ /\ lastOp'.op \in { "handleMouseDown", "handleMouseMove" }
            => Len(history') = Len(history)
        /\ ReleaseAfterMove => Len(history') = Len(history) + 1
        /\ (lastOp'.op = "handleMouseUp" /\ ~isDragging)
            => UNCHANGED <<history, historyIndex>> ]_vars

\* C16 as amended: the gesture commits exactly once, at the release: the history
\* becomes its entries up to the cursor followed by one new entry, the cursor on
\* it; its length grows by exactly one when the cursor was at the last entry.  A
\* pointer-up or pointer-leave in Idle adds nothing.
C16_DragCommitsOnceAtRelease ==
    [][ /\ lastOp'.op \in { "handleMouseDown", "handleMouseMove" }
            => UNCHANGED <<history, historyIndex>>
        /\ ReleaseAfterMove =>
              /\ Len(history') = historyIndex + 2
              /\ SubSeq(history', 1, historyIndex + 1)
                    = SubSeq(history, 1, historyIndex + 1)
              /\ historyIndex' = historyIndex + 1
              /\ (historyIndex = Len(history) - 1
                    => Len(history') = Len(history) + 1)
        /\ (lastOp'.op = "handleMouseUp" /\ ~isDragging)
            => UNCHANGED <<history, historyIndex>> ]_vars

\* C16, witness: a drag that moved the selected element to x = 80 has been
\* released with redo states after the cursor; the release committed one entry
\* and the editor is idle.
C16_Witness ==
    /\ lastOp.op = "handleMouseUp"
    /\ lastOp.commit
    /\ lastOp.cursor < lastOp.length - 1
    /\ ~isDragging
    /\ HasElement(SideElements(currentSide), selectedElement)
    /\ FindElement(SideElements(currentSide), selectedElement).x = 80
    /\ Len(history) = lastOp.cursor + 2
    /\ historyIndex = lastOp.cursor + 1

\* C17: a click without drag (pointer-down on an element, then pointer-up with no
\* pointer-move in between) leaves that element selected, ends in Idle, and leaves
\* the history and the cursor unchanged.
C17_ClickSelectsWithoutHistoryEffect ==
    [][ (lastOp.op = "handleMouseDown" /\ lastOp'.op = "handleMouseUp") =>
          /\ selectedElement' = selectedElement
          /\ selectedElement' # Null
          /\ ~isDragging'
          /\ UNCHANGED <<history, historyIndex>> ]_vars

\* The indices of the active side at which the element's position differs between
\* two element lists of the same length.
Moved(before, after) ==
    { k \in 1..Len(before) : before[k].x # after[k].x \/ before[k].y # after[k].y }

\* C18: the press on an element records the offset of the pointer from the
\* element's origin; during the drag, after each pointer-move the dragged
\* element's position is the pointer position minus that offset, unclamped, so
\* the element is displaced as the pointer is; no other element's position
\* changes.
C18_DragFollowsPointer ==
    [][ /\ ( /\ lastOp'.op = "handleMouseDown"
             /\ HasElement(SideElements(currentSide), selectedElement') )
           => LET el == FindElement(SideElements(currentSide), selectedElement')
              IN  dragOffset' = [ x |-> lastOp'.pointer.x - el.x,
                                  y |-> lastOp'.pointer.y - el.y ]
        /\ ( /\ lastOp'.op = "handleMouseMove"
             /\ isDragging
             /\ HasElement(SideElements(currentSide), selectedElement) )
           => LET before == SideElements(currentSide)
                  after  == card'[SideKey(currentSide)].elements
              IN  /\ Len(after) = Len(before)
                  /\ HasElement(after, selectedElement)
                  /\ FindElement(after, selectedElement).x
                        = lastOp'.pointer.x - dragOffset.x
                  /\ FindElement(after, selectedElement).y
                        = lastOp'.pointer.y - dragOffset.y
                  /\ Cardinality(Moved(before, after)) <= 1 ]_vars

\* The history after exactly one commit made from the state before the step.
OneEntryCommitted ==
    /\ Len(history') = historyIndex + 2
    /\ SubSeq(history', 1, historyIndex + 1) = SubSeq(history, 1, historyIndex + 1)
    /\ historyIndex' = historyIndex + 1

\* C19: addElement appends exactly one new element to the active side of the live
\* card and leaves the existing elements unchanged and in order; the new element
\* is at (50,50), 200x30 for text and 100x100 for image and shape, with fontSize
\* 16 and zIndex = the number of elements the side had + 1; it becomes the
\* selection and exactly one history entry is committed.
C19_AddAppendsOneElement ==
    [][ lastOp'.op = "addElement" =>
          LET before == SideElements(currentSide)
              after  == card'[SideKey(currentSide)].elements
              new    == after[Len(after)]
          IN  /\ Len(after) = Len(before) + 1
              /\ SubSeq(after, 1, Len(before)) = before
              /\ new.x = 50 /\ new.y = 50
              /\ new.width  = (IF new.type = "text" THEN 200 ELSE 100)
              /\ new.height = (IF new.type = "text" THEN 30 ELSE 100)
              /\ new.fontSize = 16
              /\ new.zIndex = Len(before) + 1
              /\ selectedElement' = new.id
              /\ OneEntryCommitted ]_vars

\* C20: duplicateElement(id) for an element present in the active side of the
\* live card appends exactly one clone, equal to the original in every attribute
\* except id (new), x and y (the original's + 20) and zIndex (the number of
\* elements the side had + 1); the original and the other elements are
\* unchanged, the clone becomes the selection and exactly one history entry is
\* committed.
C20_DuplicateAppendsOneClone ==
    [][ ( /\ lastOp'.op = "duplicateElement"
          /\ HasElement(SideElements(currentSide), selectedElement) ) =>
          LET before   == SideElements(currentSide)
              after    == card'[SideKey(currentSide)].elements
              original == FindElement(before, selectedElement)
              clone    == after[Len(after)]
          IN  /\ Len(after) = Len(before) + 1
              /\ SubSeq(after, 1, Len(before)) = before
              /\ clone = [ original EXCEPT !.id = clone.id,
                                           !.x = original.x + 20,
                                           !.y = original.y + 20,
                                           !.zIndex = Len(before) + 1 ]
              /\ ~HasElement(before, clone.id)
              /\ selectedElement' = clone.id
              /\ OneEntryCommitted ]_vars

\* C21: deleteElement(id) removes exactly the element with that id from the
\* active side of the live card, keeps all other elements unchanged and in
\* order, and commits one history entry; the selection is cleared when the
\* deleted element was the selected one (the editor passes the selected id, so
\* it always is).
C21_DeleteRemovesOneElement ==
    [][ ( /\ lastOp'.op = "deleteElement"
          /\ HasElement(SideElements(currentSide), selectedElement) ) =>
          LET before == SideElements(currentSide)
              after  == card'[SideKey(currentSide)].elements
          IN  /\ \E k \in 1..Len(before) :
                    /\ before[k].id = selectedElement
                    /\ after = WithoutIndex(before, k)
              /\ OneEntryCommitted
              /\ selectedElement' = Null ]_vars

\* C22: updateElement, deleteElement and duplicateElement called with an id that
\* matches no element of the active side of the live card are no-ops: the card,
\* the selection, the history and the cursor are unchanged.  (The title input
\* calls updateElement with the id 'title', which no element has.)
C22_AbsentTargetIsNoOp ==
    [][ /\ lastOp'.op = "editTitle"
            => UNCHANGED <<card, selectedElement, history, historyIndex>>
        /\ ( /\ lastOp'.op \in { "updateElement", "deleteElement", "duplicateElement" }
             /\ ~HasElement(SideElements(currentSide), selectedElement) )
            => UNCHANGED <<card, selectedElement, history, historyIndex>> ]_vars

\* C27: when the persistence update started by saveCard returns an error or
\* throws, onSave is not called and the live card, the history, the cursor and
\* the selection are left as they are, as they are by the start of the save; so
\* absent other events they are what they were when the save was started.
\* onSave is called only when an update has succeeded, once for it.
C27_FailedSaveChangesNothing ==
    [][ /\ lastOp'.op \in { "saveCard", "saveFails" }
            => UNCHANGED <<card, history, historyIndex, selectedElement, onSaveCalls>>
        /\ onSaveCalls' # onSaveCalls
            => /\ lastOp'.op = "saveSucceeds"
               /\ Len(onSaveCalls') = Len(onSaveCalls) + 1
               /\ Len(pendingSaves') = Len(pendingSaves) - 1 ]_vars

\* C27, witness: the save of an edited card has failed; onSave has not been
\* called, no update is pending, and the editor still holds the edited card.
C27_Witness ==
    /\ lastOp.op = "saveFails"
    /\ onSaveCalls = << >>
    /\ pendingSaves = << >>
    /\ Len(history) = 2
    /\ historyIndex = 1
    /\ selectedElement # Null
    /\ card # initialCard

----------------------------------------------------------------------------
\* Properties of the print preview

\* The number of cards on each page.
PageSizes == [ k \in 1..Len(pages) |-> Len(pages[k].cards) ]

\* The card lists of pages from..to, one after the other.
RECURSIVE CardsOfPages(_, _)
CardsOfPages(from, to) ==
    IF from > to THEN << >>
    ELSE pages[from].cards \o CardsOfPages(from + 1, to)

\* ceil(n / p) for p >= 1
Ceil(n, p) == (n + p - 1) \div p

\* q = floor(a / b), by what the floor is: q <= a / b < q + 1, that is
\* q * b <= a < (q + 1) * b for b > 0, and the reverse for b < 0.
IsFloorOf(q, a, b) ==
    \/ b > 0 /\ q * b <= a /\ a < (q + 1) * b
    \/ b < 0 /\ q * b >= a /\ a > (q + 1) * b

\* C6: generatePrintPages ends with a finite page list for every card list and
\* every settings combination; where cardsPerPage is 0 and there are cards, it
\* emits no page (it neither loops nor emits pages without capacity).  A run that
\* ends emits at most one page per card and side.
C6_PaginationEndsWithoutEmptyPages ==
    /\ Len(pages) <= 2 * Len(cards)
    /\ (cardsPerPageNow = 0 => pages = << >>)

\* C7: with cardsPerPage = p >= 1 and includeBack = false, the result has
\* ceil(n/p) pages, all tagged front, each of at most p cards and all but the last
\* of exactly p, and the pages' card lists one after the other are the input list.
C7_FrontOnlyPagination ==
    (pc = "done" /\ ~printSettings.includeBack /\ cardsPerPageNow >= 1) =>
        LET p == cardsPerPageNow
            n == Len(cards)
        IN  /\ Len(pages) = Ceil(n, p)
            /\ \A k \in 1..Len(pages) : pages[k].type = "front"
            /\ \A k \in 1..Len(pages) : Len(pages[k].cards) <= p
            /\ \A k \in 1..(Len(pages) - 1) : Len(pages[k].cards) = p
            /\ CardsOfPages(1, Len(pages)) = cards

\* C7, witness: 5 cards at 2 per page, front only: pages of 2, 2 and 1 cards.
C7_Witness ==
    /\ pc = "done"
    /\ ~printSettings.includeBack
    /\ Len(cards) = 5
    /\ cardsPerPageNow = 2
    /\ PageSizes = << 2, 2, 1 >>

\* C8: with includeBack = true and cardsPerPage = p >= 1, the result has
\* 2 * ceil(n/p) pages: first all the front pages, then all the back pages, and
\* the k-th back page holds the cards of the k-th front page, in the same order.
C8_FrontsThenBacks ==
    (pc = "done" /\ printSettings.includeBack /\ cardsPerPageNow >= 1) =>
        LET m == Ceil(Len(cards), cardsPerPageNow)
        IN  /\ Len(pages) = 2 * m
            /\ \A k \in 1..m : pages[k].type = "front"
            /\ \A k \in (m + 1)..(2 * m) : pages[k].type = "back"
            /\ \A k \in 1..m : pages[m + k].cards = pages[k].cards

\* C8, witness: 5 cards at 2 per page with the back sides: 3 front pages, then 3
\* back pages.
C8_Witness ==
    /\ pc = "done"
    /\ printSettings.includeBack
    /\ Len(cards) = 5
    /\ cardsPerPageNow = 2
    /\ Len(pages) = 6
    /\ pages[3].type = "front"
    /\ pages[4].type = "back"
    /\ pages[4].cards = pages[1].cards

\* The tables as C9 states them.
StatedCardSize(name, customWidth, customHeight) ==
    CASE name = "3x5"    -> << 216, 360 >>
      [] name = "4x6"    -> << 288, 432 >>
      [] name = "5x8"    -> << 360, 576 >>
      [] name = "custom" -> << customWidth, customHeight >>

StatedPaperSize(name) ==
    CASE name = "letter" -> << 612, 792 >>
      [] name = "a4"     -> << 595, 842 >>
      [] name = "legal"  -> << 612, 1008 >>

StatedMargin(name) == IF name = "normal" THEN 36 ELSE 18

\* The layout is the one C9's formulas give for a card of cardSize = <<w, h>>.
LayoutIsStated(layout, cardSize) ==
    LET paper  == StatedPaperSize(printSettings.paperSize)
        margin == StatedMargin(printSettings.margins)
    IN  /\ IsFloorOf(layout.cardsPerRow, paper[1] - 2 * margin, cardSize[1] + 18)
        /\ IsFloorOf(layout.rowsPerPage, paper[2] - 2 * margin, cardSize[2] + 18)
        /\ layout.cardsPerPage = layout.cardsPerRow * layout.rowsPerPage

\* C9 as stated: for every card size, paper size and margin, calculateLayout
\* returns the floors of the stated quotients and their product, a custom card
\* having the deck's custom width and height.
C9_LayoutAsStated ==
    LayoutIsStated(calculateLayout(deck, printSettings),
                   StatedCardSize(printSettings.cardSize,
                                  deck.custom_width, deck.custom_height))

\* C9 as amended: the same, a custom card having the deck's custom width and
\* height where the deck has them, and 216 (width) and 360 (height) where the
\* deck's value is absent or 0.
C9_LayoutWithCustomDefaults ==
    LayoutIsStated(calculateLayout(deck, printSettings),
                   StatedCardSize(printSettings.cardSize,
                       IF deck.custom_width = 0 THEN 216 ELSE deck.custom_width,
                       IF deck.custom_height = 0 THEN 360 ELSE deck.custom_height))

\* C9, witness: a layout computed for a custom card of 100 x 100 on letter paper
\* with normal margins: 4 per row, 6 rows.
C9_Witness ==
    /\ pc = "done"
    /\ printSettings.cardSize = "custom"
    /\ printSettings.paperSize = "letter"
    /\ printSettings.margins = "normal"
    /\ deck.custom_width = 100
    /\ deck.custom_height = 100
    /\ calculateLayout(deck, printSettings) =
          [ cardsPerRow |-> 4, rowsPerPage |-> 6, cardsPerPage |-> 24 ]

\* C10: for 3x5 cards on letter paper with normal margins calculateLayout returns
\* 2 per row, 1 row, 2 per page; for 5x8 cards on the same, 1, 1 and 1.
C10_ExampleLayouts ==
    /\ ( /\ printSettings.cardSize = "3x5"
         /\ printSettings.paperSize = "letter"
         /\ printSettings.margins = "normal" )
       => calculateLayout(deck, printSettings) =
            [ cardsPerRow |-> 2, rowsPerPage |-> 1, cardsPerPage |-> 2 ]
    /\ ( /\ printSettings.cardSize = "5x8"
         /\ printSettings.paperSize = "letter"
         /\ printSettings.margins = "normal" )
       => calculateLayout(deck, printSettings) =
            [ cardsPerRow |-> 1, rowsPerPage |-> 1, cardsPerPage |-> 1 ]

\* C10, witness: three cards paginated as 5x8 cards on letter paper with normal
\* margins, after the card size was changed: one card on each page.
C10_Witness ==
    /\ pc = "done"
    /\ printSettings.cardSize = "5x8"
    /\ deck.card_size = "3x5"
    /\ printSettings.paperSize = "letter"
    /\ printSettings.margins = "normal"
    /\ Len(cards) = 3
    /\ ~printSettings.includeBack
    /\ PageSizes = << 1, 1, 1 >>

\* C23: over an empty card list generatePrintPages runs no loop iteration and
\* returns an empty page list, for every settings combination, also where
\* cardsPerPage is 0: each step it takes leaves the page list empty and moves it
\* on to the next loop or to its return.
C23_EmptyListGivesNoPages ==
    [][ cards = << >> =>
          /\ pages = << >> /\ pages' = << >>
          /\ pc = "front" => pc' \in { "back", "done" }
          /\ pc = "back"  => pc' = "done" ]_vars

\* C23, witness: generatePrintPages has returned no page for an empty list, with
\* back sides included and a card that does not fit (cardsPerPage = 0).
C23_Witness ==
    /\ cards = << >>
    /\ pc = "done"
    /\ pages = << >>
    /\ printSettings.includeBack
    /\ cardsPerPageNow = 0

\* C24: for every card size (custom sizes with any integer custom width and
\* height stored on the deck included), paper size and margin, cardsPerRow,
\* rowsPerPage and cardsPerPage are integers >= 0, and cardsPerRow (rowsPerPage)
\* is 0 exactly when cardWidth + 18 > availableWidth (cardHeight + 18 >
\* availableHeight).
C24_CapacityIsNatural ==
    LET layout          == calculateLayout(deck, printSettings)
        cardSize        == cardSizes(deck, printSettings.cardSize)
        paperSize       == paperSizes(printSettings.paperSize)
        margin          == IF printSettings.margins = "normal" THEN 36 ELSE 18
        availableWidth  == paperSize.width - (margin * 2)
        availableHeight == paperSize.height - (margin * 2)
    IN  /\ layout.cardsPerRow \in Nat
        /\ layout.rowsPerPage \in Nat
        /\ layout.cardsPerPage \in Nat
        /\ layout.cardsPerRow = 0 <=> cardSize.width + 18 > availableWidth
        /\ layout.rowsPerPage = 0 <=> cardSize.height + 18 > availableHeight

\* The print settings with another orientation.
Turned(o) == [ printSettings EXCEPT !.orientation = o ]

\* C25: the orientation has no influence on layout or pagination: settings that
\* differ only in orientation give the same cardsPerRow, rowsPerPage and
\* cardsPerPage and the same page list for the same cards; and the page list a
\* finished run has built is the one the settings give.
C25_OrientationHasNoInfluence ==
    /\ \A o \in Orientations :
          /\ calculateLayout(deck, Turned(o)) = calculateLayout(deck, printSettings)
          /\ generatePrintPages(deck, cards, Turned(o))
                = generatePrintPages(deck, cards, printSettings)
    /\ pc = "done" => \A o \in Orientations :
                         pages = generatePrintPages(deck, cards, Turned(o))

\* C25, witness: five 3x5 cards paginated for landscape letter paper, two to a
\* page as for portrait (turning the paper would give three to a page).
C25_Witness ==
    /\ pc = "done"
    /\ printSettings.orientation = "landscape"
    /\ printSettings.cardSize = "3x5"
    /\ printSettings.paperSize = "letter"
    /\ printSettings.margins = "normal"
    /\ ~printSettings.includeBack
    /\ Len(cards) = 5
    /\ PageSizes = << 2, 2, 1 >>
    /\ pages = generatePrintPages(deck, cards, Turned("portrait"))

\* The settings with the given card size, paper size and margins and everything
\* else as in the first render.
WithOnly(settings) ==
    [ InitialSettings(deck) EXCEPT !.cardSize  = settings.cardSize,
                                   !.paperSize = settings.paperSize,
                                   !.margins   = settings.margins ]

\* C26: calculateLayout is deterministic and idempotent: what it returns is
\* decided by the card size, the paper size and the margins alone, so two calls
\* with the same three return the same capacity whatever calls and settings
\* changes came in between; and the steps of generatePrintPages, which call it,
\* change neither the print settings nor the card list nor the deck.
C26_LayoutDependsOnItsInputsOnly ==
    [][ /\ calculateLayout(deck, printSettings)
            = calculateLayout(deck, WithOnly(printSettings))
        /\ calculateLayout(deck', printSettings')
            = calculateLayout(deck', WithOnly(printSettings'))
        /\ pc # "done" => UNCHANGED <<printSettings, cards, deck>> ]_vars

\* C26, witness: after changes of the orientation and of includeBack, a run has
\* ended for the card size the preview was opened with, and the capacity is the
\* one of the first render.
C26_Witness ==
    /\ pc = "done"
    /\ pages # << >>
    /\ printSettings.orientation = "landscape"
    /\ ~printSettings.includeBack
    /\ WithOnly(printSettings) = InitialSettings(deck)
    /\ calculateLayout(deck, printSettings)
         = calculateLayout(deck, InitialSettings(deck))

\* C30: in every state of the editor, a drag in progress has a selected
\* element: isDragging implies that selectedElement is not null, and names the
\* element the pointer moves reposition.
C30_DraggingHasSelection ==
    isDragging => selectedElement # Null

OtherSide(side) == IF side = "front" THEN "back" ELSE "front"

\* The handlers that build a card from the rendered elements.
ElementOps ==
    { "addElement", "updateElement", "editTitle", "deleteElement",
      "duplicateElement", "handleMouseMove" }

\* C31: addElement, updateElement, deleteElement, duplicateElement and drag
\* moves change only the element collection of the active side: the other
\* side's content, the active side's background, and the card's id, deck_id,
\* title and position are as they were before the call.
C31_OnlyActiveSideElementsChange ==
    [][ lastOp'.op \in ElementOps =>
          /\ card'[SideKey(OtherSide(currentSide))] = card[SideKey(OtherSide(currentSide))]
          /\ card'[SideKey(currentSide)].backgroundColor =
                card[SideKey(currentSide)].backgroundColor
          /\ card'.id = card.id
          /\ card'.deck_id = card.deck_id
          /\ card'.title = card.title
          /\ card'.position = card.position ]_vars

\* An element has been added to the back of a card whose front holds one.
C31_Witness ==
    /\ lastOp.op = "addElement"
    /\ currentSide = "back"
    /\ Len(card.front_content.elements) >= 1
    /\ Len(card.back_content.elements) >= 1

\* C32: in every state of the editor, a non-null selectedElement is the id of
\* an element of the active side of the live card.
C32_SelectionNamesActiveElement ==
    selectedElement # Null =>
        HasElement(card[SideKey(currentSide)].elements, selectedElement)

\* C33: whenever undo is available, undo immediately followed by redo returns
\* the live card, the history and the cursor to what they were before the
\* undo, also when property edits were made since the last commit.
C33_UndoThenRedoRestores ==
    [][ (lastOp.op = "undo" /\ lastOp.cursor > 0 /\ lastOp'.op = "redo")
        => /\ card' = lastOp.card
           /\ history' = history
           /\ Len(history') = lastOp.length
           /\ historyIndex' = lastOp.cursor ]_vars

\* The zIndex values of the elements are pairwise distinct.
DistinctZIndex(elements) ==
    \A j, k \in 1..Len(elements) : j # k => elements[j].zIndex # elements[k].zIndex

\* C34: after any sequence of addElement, duplicateElement and deleteElement
\* on a side, the element created most recently (the last of the list) has a
\* zIndex strictly greater than that of every other element of the side, and
\* the zIndex values of a side are pairwise distinct.
C34_NewestElementPaintsOnTop ==
    [][ /\ (lastOp'.op \in { "addElement", "duplicateElement" } /\ lastOp'.commit)
            => LET elements == card'[SideKey(currentSide)].elements
               IN  \A k \in 1..(Len(elements) - 1) :
                      elements[k].zIndex < elements[Len(elements)].zIndex
        /\ lastOp'.op \in { "addElement", "duplicateElement", "deleteElement" }
            => \A side \in Sides : DistinctZIndex(card'[SideKey(side)].elements) ]_vars

\* C35: for every interleaving of editor events with a pending saveCard, the
\* card delivered to onSave on success has the front_content, back_content and
\* title that were sent in the update request.
C35_DeliveredCardIsWhatWasSent ==
    \A k \in 1..Len(onSaveCalls) :
        SaveRequest(onSaveCalls[k].card) = onSaveCalls[k].sent

----------------------------------------------------------------------------
\* Properties of the AI import

\* The content has no bracketed text, or its bracketed text is not JSON.
Unparsable(content) ==
    \/ jsonMatch(content).null
    \/ ~JSONparse(jsonMatch(content).value).ok

\* C28: when the extracted text holds no bracketed JSON array, or its bracketed
\* text fails to parse, processFile ends without an error and with a result of
\* exactly one pair, whose front is 'Extracted Content' and whose back is the
\* raw extracted text.
C28_UnparsableTextBecomesOnePair ==
    [][ (run.pc = "insert" /\ run'.pc = "idle" /\ Unparsable(run.content))
        => /\ error' = None
           /\ ~processing'
           /\ ~result'.null
           /\ result'.value =
                << [ kind |-> "object",
                     props |-> [ front |-> << "Extracted Content" >>,
                                 back |-> run.content ] ] >> ]_vars

\* A run has ended with the fallback pair of a bracketed text that is not JSON.
C28_Witness ==
    /\ run.pc = "idle"
    /\ error = None
    /\ ~result.null
    /\ Len(result.value) = 1
    /\ result.value[1].kind = "object"
    /\ result.value[1].props.front = << "Extracted Content" >>
    /\ ~jsonMatch(result.value[1].props.back).null

\* An entry of a result is a pair: an object with a front and a back text.
IsPair(entry) ==
    /\ entry.kind = "object"
    /\ DOMAIN entry.props = { "front", "back" }

IsListOfPairs(list) ==
    /\ Len(list) >= 1
    /\ \A k \in 1..Len(list) : IsPair(list[k])

\* C29: whenever the import holds a result, and whatever it hands to
\* onImportComplete, is a non-empty sequence in which every entry is a pair
\* with a front and a back text.
C29_ResultIsListOfPairs ==
    /\ ~result.null => IsListOfPairs(result.value)
    /\ \A k \in 1..Len(imported) : IsListOfPairs(imported[k])

----------------------------------------------------------------------------
\* Properties of the page headings

\* The page at position j (from 1) is the k-th page of its side.
RankInSide(pageList, j) ==
    Cardinality({ m \in 1..j : pageList[m].type = pageList[j].type })

\* C36: the page number shown in the heading of the k-th front page is k, and
\* the one shown for the k-th back page is k, with and without back sides, for
\* the page list generatePrintPages returns.
C36_HeadingShowsRankInSide ==
    pc = "done" =>
        \A j \in 1..Len(pages) :
            PageNumberShown(j - 1, printSettings) = RankInSide(pages, j)

----------------------------------------------------------------------------
\* Properties of a run of the AI import

\* Exactly one of result and error holds a value.
OneOutcome(res, err) == res.null # err.null

\* C37: every run of processFile eventually ends with processing = false and
\* exactly one of result and error non-null, whatever the outcomes of the
\* lookup, the request and the parsing; and result and error are never both
\* non-null.
C37_EveryRunEndsWithOneOutcome ==
    /\ processing ~> (~processing /\ OneOutcome(result, error))
    /\ [][ (processing /\ ~processing') => OneOutcome(result', error') ]_vars
    /\ [](result.null \/ error.null)

\* A run has ended with the error of a request that was not ok.
C37_Witness ==
    /\ ~processing
    /\ run.pc = "idle"
    /\ result.null
    /\ ~error.null
    /\ error.value = "Failed to process file with AI"

============================================================================
